---- MODULE Spec2Model ----
(***************************************************************************)
(* Model of src/mindwave.py: MindwaveAdapter, the decoder of the byte      *)
(* stream of a ThinkGear EEG headset.                                       *)
(*                                                                         *)
(* The serial port (pyserial, not part of the repository) is the byte      *)
(* source: `stream` holds the bytes that arrive, `pos` how many of them     *)
(* have been read.  A read blocks while the source is open and no byte is   *)
(* left (the read timeout is not modelled), and raises once the port is     *)
(* closed.  Every byte read from the port is turned by _read into its       *)
(* two-character lower-case hex text; that text is modelled as the pair of  *)
(* its two hex digits, <<high, low>>, each 0..15.                           *)
(***************************************************************************)
EXTENDS Integers, Sequences, FiniteSets, TLC

VARIABLES
    stream,         \* the bytes the serial port delivers, in order
    pos,            \* number of bytes read from the port so far
    open,           \* sensor.isOpen()
    version,        \* sys.version_info.major
    skip_raw_wave,  \* self.skip_raw_wave
    pc,             \* position of the generator values()
    a, b,           \* the locals of _wait_for_ready_state
    ready,          \* value _wait_for_ready_state returned (None = FALSE)
    length,         \* the local `length` of values()
    payload,        \* the list `result` of _read_packet, then `payload`
    checksum,       \* the local `checksum` of _read_packet
    i,              \* the index `i` of get_payload_values
    result,         \* the dict `result` of get_payload_values
    out,            \* the values yielded so far, in order
    err,            \* the exception that ended values(), "" if none
    syncFrom,       \* history: pos when the current sync scan started
    lenAt,          \* history: place in stream of the last length byte read
    log             \* history: one record per packet attempt that ended

vars == <<stream, pos, open, version, skip_raw_wave, pc, a, b, ready, length,
          payload, checksum, i, result, out, err, syncFrom, lenAt, log>>

\* fixed at construction
config == <<stream, version, skip_raw_wave>>

----------------------------------------------------------------------------
(* Bounds of the model.                                                    *)

MaxSegs == 2        \* segments concatenated into a stream of Spec
MaxScan == 6        \* length of a stream of SpecSync
MaxLen == 2         \* declared packet length in SpecPacket
MaxFields == 2      \* fields concatenated into a payload of SpecDecode

----------------------------------------------------------------------------
(* Bytes and their hex text.                                               *)

SYNC == 170
MaxPLength == 169

\* _encode_v2 / _encode_v3: one byte as two hex digits, high digit first.
encode(byte) == <<byte \div 16, byte % 16>>

\* int(text, 16)
int16(text) == text[1] * 16 + text[2]

\* int(text): the digits read in base TEN; Python raises ValueError when a
\* character is not a decimal digit (the hex letters a..f).
IsDecimal(text) == text[1] < 10 /\ text[2] < 10
int10(text) == text[1] * 10 + text[2]

\* faulty variant: a typo in the literal, 'ab'
aa_typo == <<10, 11>>

\* the string 'aa'
aa == encode(SYNC)

NoText == <<>>

----------------------------------------------------------------------------
(* The byte source.                                                        *)

\* A read returns (the port is closed: it raises; or a byte is there).
CanRead == ~open \/ pos < Len(stream)

\* the byte the next read delivers
NextByte == stream[pos + 1]

\* serial.Serial.read on a closed port raises instead of delivering a byte.
ReadFails == ~open

----------------------------------------------------------------------------
(* Python lists, indexed from 0.                                           *)

InRange(list, j) == j >= 0 /\ j < Len(list)

At(list, j) == list[j + 1]

\* list[start:end] for 0 <= start: the elements at start..end-1 that exist
Slice(list, start, end) ==
    LET last == IF end < Len(list) THEN end ELSE Len(list)
    IN  IF start >= last THEN <<>> ELSE SubSeq(list, start + 1, last)

----------------------------------------------------------------------------
(* The decode routines.  Each returns a record: exc = "" and the pair       *)
(* (value, next) the routine returns, or the exception it raises.           *)

Returns(value, next) == [exc |-> "", value |-> value, next |-> next]

Raises(exc) == [exc |-> exc, value |-> 0, next |-> 0]

waves == <<"delta", "theta", "low_alpha", "high_alpha",
           "low_beta", "high_beta", "low_gamma", "mid_gamma">>

big_endian(byte_input) ==
    byte_input[1] * 65536 + byte_input[2] * 256 + byte_input[3]

\* faulty variant: the tag byte taken for the value
read_default_value_tag(list, j) ==
    IF ~InRange(list, j + 1) THEN Raises("IndexError")
    ELSE Returns(int16(At(list, j)), j + 2)

read_default_value(list, j) ==
    IF ~InRange(list, j + 1) THEN Raises("IndexError")
    ELSE Returns(int16(At(list, j + 1)), j + 2)

\* faulty variant: the sign test off by one
signed16_above(value) == IF value > 32768 THEN value - 65536 ELSE value

\* if value >= 32768: value -= 65536
signed16(value) == IF value >= 32768 THEN value - 65536 ELSE value

\* faulty variant: only a shorter field refused
RawLengthWrong_below(len) == len < 2

\* if length != 2
RawLengthWrong(len) == len # 2

\* faulty variant: the routine hands back the index it was called with
raw_wave_next_stuck(end) == end - 4

\* the index raw_wave returns: `end + 1`
raw_wave_next(end) == end + 1

raw_wave(list, j) ==
    IF ~InRange(list, j + 1) THEN Raises("IndexError")
    ELSE IF ~IsDecimal(At(list, j + 1)) THEN Raises("ValueError")
    ELSE
        LET len == int10(At(list, j + 1)) IN
        IF RawLengthWrong(len) THEN Raises("ValueError")
        ELSE
            LET start == j + 2
                end == j + 2 + len
                ks == Slice(list, start, end)
            IN  IF Len(ks) # 2 THEN Raises("ValueError")   \* a, b = [...]
                ELSE
                    LET value == int16(ks[1]) * 256 + int16(ks[2])
                    IN  Returns(signed16(value), raw_wave_next(end))

asic_eeg(list, j) ==
    IF ~InRange(list, j + 1) THEN Raises("IndexError")
    ELSE IF ~IsDecimal(At(list, j + 1)) THEN Raises("ValueError")
    ELSE
        LET first == j + 2
            len == 24
            numbers(count) ==
                LET group == Slice(list, first + 3 * count, first + 3 * count + 3)
                IN  [k \in 1..Len(group) |-> int16(group[k])]
            \* the last loop pass that stores a value under wave name w
            pass(w) == CHOOSE c \in 0..7 :
                           /\ waves[c + 1] = w
                           /\ \A d \in 0..7 : waves[d + 1] = w => d <= c
        IN  IF \E count \in 0..7 : Len(numbers(count)) < 3
            THEN Raises("IndexError")                       \* _big_endian
            ELSE Returns([w \in {waves[c] : c \in 1..8} |-> big_endian(numbers(pass(w)))],
                         first + len)

\* self.codes
codes ==
    [c \in {2, 4, 5, 16, 80, 83} |->
        CASE c = 2  -> [name |-> "poor_signal", func |-> "read_default_value"]
          [] c = 4  -> [name |-> "attention", func |-> "read_default_value"]
          [] c = 5  -> [name |-> "meditation", func |-> "read_default_value"]
          [] c = 16 -> [name |-> "blink_strength", func |-> "read_default_value"]
          [] c = 80 -> [name |-> "raw_wave", func |-> "raw_wave"]
          [] c = 83 -> [name |-> "asic_eeg", func |-> "asic_eeg"]]

\* func(payload, i)
Call(func, list, j) ==
    CASE func = "read_default_value" -> read_default_value(list, j)
      [] func = "raw_wave" -> raw_wave(list, j)
      [] func = "asic_eeg" -> asic_eeg(list, j)

\* result[func_name] = value
SetItem(dict, key, value) ==
    [k \in (DOMAIN dict) \cup {key} |-> IF k = key THEN value ELSE dict[k]]

EmptyDict == <<>>

\* One pass of the loop of get_payload_values at index j: the routine's
\* record, with the name the value is stored under.
Field(list, j) ==
    IF ~InRange(list, j) THEN [name |-> ""] @@ Raises("IndexError")
    ELSE IF ~IsDecimal(At(list, j)) THEN [name |-> ""] @@ Raises("ValueError")
    ELSE IF int10(At(list, j)) \notin DOMAIN codes THEN [name |-> ""] @@ Raises("KeyError")
    ELSE LET entry == codes[int10(At(list, j))]
         IN  [name |-> entry.name] @@ Call(entry.func, list, j)

\* result.keys() == ['raw_wave']: a list in Python 2; in Python 3 keys() is
\* a view object, which is never equal to a list.
\* faulty variant: a dict with no key other than raw_wave taken for it
KeysAreRawWave_subset(dict) == version = 2 /\ DOMAIN dict \subseteq {"raw_wave"}

KeysAreRawWave(dict) == version = 2 /\ DOMAIN dict = {"raw_wave"}

\* get_payload_values(payload, length) as a whole, from index j with the
\* dict filled so far: the dict it returns, or the exception it raises.
RECURSIVE get_payload_values_from(_, _, _, _)
get_payload_values_from(list, len, j, dict) ==
    IF j >= len THEN [exc |-> "", value |-> dict]
    ELSE LET f == Field(list, j)
         IN  IF f.exc # "" THEN [exc |-> f.exc, value |-> dict]
             ELSE get_payload_values_from(list, len, f.next, SetItem(dict, f.name, f.value))

get_payload_values(list, len) == get_payload_values_from(list, len, 0, EmptyDict)

----------------------------------------------------------------------------
(* _read_packet's arithmetic.                                              *)

\* faulty variant: the mask 0x7F for 0xFF
ComputedChecksum_7bit(sum) == 127 - (sum % 128)

\* faulty variant: the sum negated, -checksum & 0xFF, instead of complemented
ComputedChecksum_negated(sum) == (256 - (sum % 256)) % 256

\* checksum = checksum & 0xFF; checksum = ~checksum & 0xFF
ComputedChecksum(sum) == 255 - (sum % 256)

\* faulty variant: the comparison dropped, every packet accepted
ChecksumWrong_never(computed, expected) == FALSE

\* if checksum != expected_checksum
ChecksumWrong(computed, expected) == computed # expected

\* faulty variant: the limit off by one
LengthTooLarge_above170(n) == n > MaxPLength + 1

\* if length > 169
LengthTooLarge(n) == n > MaxPLength

\* faulty variant: `and` for `or`
Mismatch_both(x, y) == x # aa /\ y # aa

\* if a != 'aa' or b != 'aa'
Mismatch(x, y) == x # aa \/ y # aa

\* faulty variant: the newest value handed out first
Yielded_first(values, value) == <<value>> \o values

\* yield result: the values the consumer has received, in order
Yielded(values, value) == Append(values, value)

----------------------------------------------------------------------------
(* The exception handler of values(): `except ChecksumFailed: continue`.   *)

\* faulty variant: a handler that catches nothing
Caught_nothing(exc) == FALSE

\* faulty variant: the errors of a short payload swallowed as well
Caught_short(exc) == exc \in {"ChecksumFailed", "IndexError", "ValueError"}

\* faulty variant: `except Exception`
Caught_all(exc) == TRUE

Caught(exc) == exc = "ChecksumFailed"

\* the record of a packet attempt that ends with `upto` bytes read
Event(kind, upto) ==
    [kind |-> kind, syncFrom |-> syncFrom, lenAt |-> lenAt, upto |-> upto]

\* An exception raised outside the try block (lines 158-165), or one that
\* the handler does not catch: it ends the generator.
Fatal(exc) ==
    /\ pc' = "error"
    /\ err' = exc

\* An exception raised inside the try block (lines 167-176).
Raise(exc, upto) ==
    /\ log' = Append(log, Event(exc, upto))
    /\ IF Caught(exc)
       THEN pc' = "top" /\ err' = err
       ELSE Fatal(exc)

----------------------------------------------------------------------------
(* values(), one action per step between two reads.                        *)

\* line 158: while sensor.isOpen()
values_loop ==
    /\ pc = "top"
    /\ IF open
       THEN /\ pc' = "w_top"
            /\ syncFrom' = pos
       ELSE /\ pc' = "done"
            /\ UNCHANGED syncFrom
    /\ UNCHANGED <<config, pos, open, a, b, ready, length, payload, checksum,
                   i, result, out, err, lenAt, log>>

\* line 85: while self.sensor.isOpen(); falling out of the loop returns None
wait_loop ==
    /\ pc = "w_top"
    /\ IF open
       THEN /\ pc' = "w_a"
            /\ UNCHANGED ready
       ELSE /\ pc' = "len"
            /\ ready' = FALSE
    /\ UNCHANGED <<config, pos, open, a, b, length, payload, checksum,
                   i, result, out, err, syncFrom, lenAt, log>>

\* line 86: a = self._read(1)
wait_read_a ==
    /\ pc = "w_a"
    /\ CanRead
    /\ IF ReadFails
       THEN /\ Fatal("SerialException")
            /\ UNCHANGED <<pos, a>>
       ELSE /\ a' = encode(NextByte)
            /\ pos' = pos + 1
            /\ pc' = "w_b"
            /\ UNCHANGED err
    /\ UNCHANGED <<config, open, b, ready, length, payload, checksum,
                   i, result, out, syncFrom, lenAt, log>>

\* lines 87-88, 91-92: b = self._read(1), the test, return True
wait_read_b ==
    /\ pc = "w_b"
    /\ CanRead
    /\ IF ReadFails
       THEN /\ Fatal("SerialException")
            /\ UNCHANGED <<pos, b, ready>>
       ELSE /\ b' = encode(NextByte)
            /\ pos' = pos + 1
            /\ IF Mismatch(a, b')
               THEN pc' = "w_c" /\ UNCHANGED ready
               ELSE pc' = "len" /\ ready' = TRUE
            /\ UNCHANGED err
    /\ UNCHANGED <<config, open, a, length, payload, checksum,
                   i, result, out, syncFrom, lenAt, log>>

\* lines 89-90: a = b; b = self._read(1); then back to the loop test
wait_read_next ==
    /\ pc = "w_c"
    /\ CanRead
    /\ IF ReadFails
       THEN /\ Fatal("SerialException")
            /\ a' = b
            /\ UNCHANGED <<pos, b>>
       ELSE /\ a' = b
            /\ b' = encode(NextByte)
            /\ pos' = pos + 1
            /\ pc' = "w_top"
            /\ UNCHANGED err
    /\ UNCHANGED <<config, open, ready, length, payload, checksum,
                   i, result, out, syncFrom, lenAt, log>>

\* lines 160-165: length = self._read(1, to_int=True) and its range check
read_length ==
    /\ pc = "len"
    /\ CanRead
    /\ IF ReadFails
       THEN /\ Fatal("SerialException")
            /\ UNCHANGED <<pos, length, payload, checksum, lenAt, log>>
       ELSE /\ length' = int16(encode(NextByte))
            /\ pos' = pos + 1
            /\ lenAt' = pos + 1
            /\ IF LengthTooLarge(length')
               THEN /\ pc' = "top"
                    /\ log' = Append(log, [Event("oversize", pos + 1)
                                              EXCEPT !.lenAt = pos + 1])
                    /\ UNCHANGED <<payload, checksum>>
               ELSE /\ pc' = "pkt"
                    /\ payload' = <<>>
                    /\ checksum' = 0
                    /\ UNCHANGED log
            /\ UNCHANGED err
    /\ UNCHANGED <<config, open, a, b, ready, i, result, out, syncFrom>>

\* lines 61-64: one pass of the loop of _read_packet
read_packet_byte ==
    /\ pc = "pkt"
    /\ Len(payload) < length
    /\ CanRead
    /\ IF ReadFails
       THEN /\ Raise("SerialException", pos)
            /\ UNCHANGED <<pos, payload, checksum>>
       ELSE /\ payload' = Append(payload, encode(NextByte))
            /\ checksum' = checksum + int16(encode(NextByte))
            /\ pos' = pos + 1
            /\ UNCHANGED <<pc, err, log>>
    /\ UNCHANGED <<config, open, a, b, ready, length, i, result, out,
                   syncFrom, lenAt>>

\* lines 66-77: the checksum byte and the comparison; on success line 169
\* starts get_payload_values
read_packet_checksum ==
    /\ pc = "pkt"
    /\ Len(payload) >= length
    /\ CanRead
    /\ IF ReadFails
       THEN /\ Raise("SerialException", pos)
            /\ UNCHANGED <<pos, i, result>>
       ELSE /\ pos' = pos + 1
            /\ IF ChecksumWrong(ComputedChecksum(checksum), int16(encode(NextByte)))
               THEN /\ Raise("ChecksumFailed", pos + 1)
                    /\ UNCHANGED <<i, result>>
               ELSE /\ pc' = "decode"
                    /\ i' = 0
                    /\ result' = EmptyDict
                    /\ UNCHANGED <<err, log>>
    /\ UNCHANGED <<config, open, a, b, ready, length, payload, checksum, out,
                   syncFrom, lenAt>>

\* lines 147-151: one pass of the loop of get_payload_values
decode_field ==
    /\ pc = "decode"
    /\ i < length
    /\ LET f == Field(payload, i)
       IN  IF f.exc # ""
           THEN /\ Raise(f.exc, pos)
                /\ UNCHANGED <<i, result>>
           ELSE /\ result' = SetItem(result, f.name, f.value)
                /\ i' = f.next
                /\ UNCHANGED <<pc, err, log>>
    /\ UNCHANGED <<config, pos, open, a, b, ready, length, payload, checksum,
                   out, syncFrom, lenAt>>

\* lines 153, 171-174: return result; skip it or yield it
decode_done ==
    /\ pc = "decode"
    /\ i >= length
    /\ IF skip_raw_wave /\ KeysAreRawWave(result)
       THEN /\ pc' = "top"
            /\ log' = Append(log, Event("skip", pos))
            /\ UNCHANGED out
       ELSE /\ pc' = "yield"
            /\ log' = Append(log, Event("yield", pos))
            /\ out' = Yielded(out, result)
    /\ UNCHANGED <<config, pos, open, a, b, ready, length, payload, checksum,
                   i, result, err, syncFrom, lenAt>>

\* the consumer asks for the next value: the generator resumes after yield
resume ==
    /\ pc = "yield"
    /\ pc' = "top"
    /\ UNCHANGED <<config, pos, open, a, b, ready, length, payload, checksum,
                   i, result, out, err, syncFrom, lenAt, log>>

\* the serial port is closed (by the consumer, or the device goes away)
close ==
    /\ open
    /\ pc \notin {"done", "error"}
    /\ open' = FALSE
    /\ UNCHANGED <<config, pos, pc, a, b, ready, length, payload, checksum,
                   i, result, out, err, syncFrom, lenAt, log>>

----------------------------------------------------------------------------
(* What the headset sends: the inputs of the model.                        *)

RECURSIVE Sum(_)
Sum(bytes) == IF bytes = <<>> THEN 0 ELSE bytes[1] + Sum(Tail(bytes))

\* the checksum byte the protocol puts after a payload
ProtocolChecksum(bytes) == 255 - (Sum(bytes) % 256)

\* a packet as sent: sync, sync, length, payload, checksum
Frame(bytes) == <<SYNC, SYNC, Len(bytes)>> \o bytes \o <<ProtocolChecksum(bytes)>>

\* the same packet with a damaged checksum byte
BadFrame(bytes) ==
    <<SYNC, SYNC, Len(bytes)>> \o bytes \o <<(ProtocolChecksum(bytes) + 255) % 256>>

\* payloads (hex: 02 64 / 04 32 / 80 02 ff fe / 02 64 80 02 00 01 / 03 00)
PoorSignal == <<2, 100>>
Attention == <<4, 50>>
RawOnly == <<128, 2, 255, 254>>
PoorAndRaw == <<2, 100, 128, 2, 0, 1>>
Unknown == <<3, 0>>

Segments ==
    { <<2>>, <<SYNC>>, <<SYNC, SYNC, 200>>,
      Frame(PoorSignal), Frame(Attention), Frame(RawOnly), Frame(PoorAndRaw),
      Frame(Unknown), Frame(<<>>), BadFrame(PoorSignal) }

RECURSIVE Concat(_, _)
Concat(pieces, n) ==
    IF n = 0 THEN {<<>>}
    ELSE LET shorter == Concat(pieces, n - 1)
         IN  shorter \cup {s \o p : s \in shorter, p \in pieces}

Streams == Concat(Segments, MaxSegs)

RECURSIVE SeqsUpTo(_, _)
SeqsUpTo(S, n) ==
    IF n = 0 THEN {<<>>}
    ELSE LET shorter == SeqsUpTo(S, n - 1)
         IN  shorter \cup {Append(s, x) : s \in shorter, x \in S}

\* the text of every byte of a sequence, as _read_packet collects it
Texts(bytes) == [k \in 1..Len(bytes) |-> encode(bytes[k])]

----------------------------------------------------------------------------
(* Spec: values() from its first line, over the streams of Streams.        *)

Init ==
    /\ stream \in Streams
    /\ version \in {2, 3}
    /\ skip_raw_wave \in BOOLEAN
    /\ pos = 0
    /\ open = TRUE
    /\ pc = "top"
    /\ a = NoText
    /\ b = NoText
    /\ ready = FALSE
    /\ length = 0
    /\ payload = <<>>
    /\ checksum = 0
    /\ i = 0
    /\ result = EmptyDict
    /\ out = <<>>
    /\ err = ""
    /\ syncFrom = 0
    /\ lenAt = 0
    /\ log = <<>>

Next ==
    \/ values_loop
    \/ wait_loop
    \/ wait_read_a
    \/ wait_read_b
    \/ wait_read_next
    \/ read_length
    \/ read_packet_byte
    \/ read_packet_checksum
    \/ decode_field
    \/ decode_done
    \/ resume
    \/ close

Spec == Init /\ [][Next]_vars

----------------------------------------------------------------------------
(* SpecSync: one call of _wait_for_ready_state over every short stream;    *)
(* `stream` holds the bytes that arrive from the call on.                  *)

ScanBytes == {SYNC, 171, 10}

InitSync ==
    /\ stream \in SeqsUpTo(ScanBytes, MaxScan)
    /\ version = 3
    /\ skip_raw_wave = TRUE
    /\ pos = 0
    /\ open = TRUE
    /\ pc = "w_top"
    /\ a = NoText
    /\ b = NoText
    /\ ready = FALSE
    /\ length = 0
    /\ payload = <<>>
    /\ checksum = 0
    /\ i = 0
    /\ result = EmptyDict
    /\ out = <<>>
    /\ err = ""
    /\ syncFrom = 0
    /\ lenAt = 0
    /\ log = <<>>

NextSync ==
    \/ wait_loop
    \/ wait_read_a
    \/ wait_read_b
    \/ wait_read_next
    \/ close

SpecSync == InitSync /\ [][NextSync]_vars

----------------------------------------------------------------------------
(* SpecPacket: one call of _read_packet(length), for every length up to    *)
(* MaxLen and every choice of payload and checksum bytes; `stream` holds    *)
(* the bytes that arrive after the length byte, the packet and one more.    *)

PacketBytes == {0, 1, 127, 128, 254, 255}

InitPacket ==
    /\ length \in 0..MaxLen
    /\ \E body \in SeqsUpTo(PacketBytes, MaxLen), c \in PacketBytes :
          /\ Len(body) = length
          /\ stream = body \o <<c, 0>>
    /\ version = 3
    /\ skip_raw_wave = TRUE
    /\ pos = 0
    /\ open = TRUE
    /\ pc = "pkt"
    /\ a = aa
    /\ b = aa
    /\ ready = TRUE
    /\ payload = <<>>
    /\ checksum = 0
    /\ i = 0
    /\ result = EmptyDict
    /\ out = <<>>
    /\ err = ""
    /\ syncFrom = 0
    /\ lenAt = 0
    /\ log = <<>>

NextPacket ==
    \/ read_packet_byte
    \/ read_packet_checksum

SpecPacket == InitPacket /\ [][NextPacket]_vars

----------------------------------------------------------------------------
(* SpecDecode: get_payload_values on the payload of a packet that passed   *)
(* the checksum, for every payload made of up to MaxFields pieces.          *)

\* 83 xx and 24 data bytes
AsicField(lengthByte) == <<131, lengthByte>> \o [k \in 1..24 |-> (k * 37) % 256]

Pieces ==
    { <<2, 100>>, <<2, 200>>, <<4, 50>>, <<5, 0>>, <<22, 255>>,
      <<128, 2, 127, 255>>, <<128, 2, 128, 0>>, <<128, 2, 255, 255>>,
      AsicField(24), AsicField(26),
      <<2>>, <<128, 3, 0, 0>>, <<128, 2, 1>>, <<131, 24, 1, 2, 3>>,
      <<128>>, <<128, 2>>, <<131>>, <<131, 24>>,
      <<3, 0>>, <<16, 5>>, <<80, 2, 0, 1>>, <<170>> }

Payloads == Concat(Pieces, MaxFields)

InitDecode ==
    /\ \E bytes \in Payloads :
          /\ stream = Frame(bytes)
          /\ payload = Texts(bytes)
          /\ checksum = Sum(bytes)
    /\ length = Len(payload)
    /\ version \in {2, 3}
    /\ skip_raw_wave \in BOOLEAN
    /\ pos = Len(stream)
    /\ open = TRUE
    /\ pc = "decode"
    /\ a = aa
    /\ b = aa
    /\ ready = TRUE
    /\ i = 0
    /\ result = EmptyDict
    /\ out = <<>>
    /\ err = ""
    /\ syncFrom = 0
    /\ lenAt = 3
    /\ log = <<>>

NextDecode ==
    \/ decode_field
    \/ decode_done

SpecDecode == InitDecode /\ [][NextDecode]_vars

----------------------------------------------------------------------------
(* Vocabulary of the properties.                                           *)

Last(seq) == seq[Len(seq)]

ScanStates == {"w_top", "w_a", "w_b", "w_c"}

\* two adjacent sync bytes at places k, k+1 of the stream
SyncAt(k) == k >= 1 /\ k + 1 <= Len(stream) /\ stream[k] = 170 /\ stream[k + 1] = 170

HasSync == \E k \in 1..Len(stream) : SyncAt(k)

\* the place of the second byte of the first sync marker
FirstSyncEnd == 1 + CHOOSE k \in 1..Len(stream) : SyncAt(k) /\ \A m \in 1..(k - 1) : ~SyncAt(m)

\* the payload bytes of the packet whose length byte is at place k
BodyAt(k) == SubSeq(stream, k + 1, k + stream[k])

\* the fields of the protocol, by tag byte (hex 02 04 05 16 80 83)
DocName(tag) ==
    CASE tag = 2 -> "poor_signal"
      [] tag = 4 -> "attention"
      [] tag = 5 -> "meditation"
      [] tag = 22 -> "blink_strength"
      [] tag = 128 -> "raw_wave"
      [] tag = 131 -> "asic_eeg"

DocSize(tag) == IF tag = 128 THEN 4 ELSE IF tag = 131 THEN 26 ELSE 2

DocValue(field) ==
    CASE field[1] = 128 ->
            LET v == field[3] * 256 + field[4] IN IF v >= 32768 THEN v - 65536 ELSE v
      [] field[1] = 131 ->
            [w \in {"delta", "theta", "low_alpha", "high_alpha",
                    "low_beta", "high_beta", "low_gamma", "mid_gamma"} |->
                LET g == CASE w = "delta" -> 0 [] w = "theta" -> 1
                           [] w = "low_alpha" -> 2 [] w = "high_alpha" -> 3
                           [] w = "low_beta" -> 4 [] w = "high_beta" -> 5
                           [] w = "low_gamma" -> 6 [] w = "mid_gamma" -> 7
                IN  field[3 + 3 * g] * 65536 + field[4 + 3 * g] * 256 + field[5 + 3 * g]]
      [] OTHER -> field[2]

\* a concatenation of well-formed fields
RECURSIVE WellFormed(_)
WellFormed(bytes) ==
    \/ bytes = <<>>
    \/ /\ bytes[1] \in {2, 4, 5, 22, 128, 131}
       /\ Len(bytes) >= DocSize(bytes[1])
       /\ bytes[1] = 128 => bytes[2] = 2
       /\ WellFormed(SubSeq(bytes, DocSize(bytes[1]) + 1, Len(bytes)))

\* the map the protocol assigns to a well-formed payload
RECURSIVE DocDecode(_, _)
DocDecode(bytes, dict) ==
    IF bytes = <<>> THEN dict
    ELSE LET n == DocSize(bytes[1])
         IN  DocDecode(SubSeq(bytes, n + 1, Len(bytes)),
                       SetItem(dict, DocName(bytes[1]), DocValue(SubSeq(bytes, 1, n))))

----------------------------------------------------------------------------
(* C1: for a stream whose first two adjacent 0xAA bytes follow a prefix    *)
(* without such a pair, _wait_for_ready_state returns True having read     *)
(* exactly the prefix and the two sync bytes: it never reads past the      *)
(* second 0xAA, and when it returns it stands right after it.              *)
(* (SpecSync; the code violates it.)                                       *)
C1_SyncPosition ==
    HasSync =>
        /\ pos <= FirstSyncEnd
        /\ (pc = "len" /\ ready) => pos = FirstSyncEnd

----------------------------------------------------------------------------
(* C2: for a payload that is a concatenation of well-formed fields with    *)
(* the tags of the protocol, get_payload_values raises nothing and returns *)
(* the map of the field names met, each with the value of the per-tag      *)
(* arithmetic.  (SpecDecode; the code violates it.)                        *)
C2_DecodesWellFormed ==
    WellFormed(BodyAt(3)) =>
        /\ err = ""
        /\ (pc = "decode" /\ i >= length) => result = DocDecode(BodyAt(3), EmptyDict)

----------------------------------------------------------------------------
(* C3: _read_packet(L) over L payload bytes B and a checksum byte c: once  *)
(* it has ended it has read exactly L + 1 bytes; it returned, with the     *)
(* texts of B in order, exactly when c = (~(sum(B) & 0xFF)) & 0xFF, and     *)
(* otherwise it raised ChecksumFailed.  (SpecPacket)                       *)
C3_ChecksumAcceptance ==
    LET B == SubSeq(stream, 1, length)
        c == stream[length + 1]
        good == c = 255 - (Sum(B) % 256)
    IN  /\ pc = "pkt" => pos <= length /\ payload = Texts(SubSeq(stream, 1, pos))
        /\ pc # "pkt" =>
              /\ pos = length + 1
              /\ good => pc = "decode" /\ payload = Texts(B) /\ log = <<>>
              /\ ~good => pc = "top" /\ Len(log) = 1 /\ log[1].kind = "ChecksumFailed"

\* a packet whose byte sum exceeds 255 was accepted
C3_Witness ==
    /\ pc = "decode"
    /\ length >= 2
    /\ checksum > 255
    /\ pos = length + 1

----------------------------------------------------------------------------
(* Packet attempts of values(), read off the history.                      *)

\* the place of the checksum byte of the packet whose length byte is at k
EndOf(k) == k + stream[k] + 1

YieldEvents == SelectSeq(log, LAMBDA e : e.kind = "yield")

\* the attempt after log[k] started its scan at place `from`
NextScanFrom(k, from) ==
    /\ k < Len(log) => log[k + 1].syncFrom = from
    /\ (k = Len(log) /\ pc \notin {"top", "done"}) => syncFrom = from

----------------------------------------------------------------------------
(* C4: with skip_raw_wave set, no value whose only key is raw_wave is      *)
(* yielded, and a packet is skipped only when its decoded map has the      *)
(* single key raw_wave.  (Spec; the code violates it under Python 3.)      *)
C4_SkipRawWave ==
    skip_raw_wave =>
        /\ \A n \in 1..Len(out) : DOMAIN out[n] # {"raw_wave"}
        /\ (log # <<>> /\ Last(log).kind = "skip" /\ Last(log).lenAt = lenAt)
              => DOMAIN result = {"raw_wave"}

----------------------------------------------------------------------------
(* C5: every value yielded belongs to a packet of the stream whose length  *)
(* byte is at most 169 and whose checksum byte is the complement of the    *)
(* low 8 bits of the sum of its payload bytes; there is no other yield.    *)
C5_EmissionInvariant ==
    /\ Len(out) = Len(YieldEvents)
    /\ \A k \in 1..Len(log) :
          log[k].kind = "yield" =>
              LET at == log[k].lenAt IN
              /\ at >= 1
              /\ stream[at] <= 169
              /\ EndOf(at) <= Len(stream)
              /\ stream[EndOf(at)] = 255 - (Sum(BodyAt(at)) % 256)

\* a packet with a damaged checksum was dropped and a later one yielded
C5_Witness ==
    /\ Len(log) = 2
    /\ log[1].kind = "ChecksumFailed"
    /\ log[2].kind = "yield"
    /\ Len(out) = 1

----------------------------------------------------------------------------
(* C6: a length byte above 169 ends the attempt at once: no payload or     *)
(* checksum byte is read for it (the attempt ends with the length byte the *)
(* last byte read), and the next scan for the sync marker starts at the    *)
(* byte after the length byte.                                             *)
C6_OversizedLength ==
    /\ pc \in {"pkt", "decode", "yield"} => stream[lenAt] <= 169
    /\ \A k \in 1..Len(log) :
          LET e == log[k] IN
          /\ e.kind = "oversize" <=> stream[e.lenAt] > 169
          /\ e.kind = "oversize" => e.upto = e.lenAt /\ NextScanFrom(k, e.lenAt)

\* length 200 was rejected and the packet right after it was yielded
C6_Witness ==
    /\ Len(log) = 2
    /\ log[1].kind = "oversize"
    /\ stream[log[1].lenAt] = 200
    /\ log[2].kind = "yield"
    /\ log[2].syncFrom = log[1].lenAt

----------------------------------------------------------------------------
\* a whole packet with a right checksum whose first sync byte is at place k
FrameAt(k) ==
    /\ SyncAt(k)
    /\ k + 2 <= Len(stream)
    /\ stream[k + 2] <= 169
    /\ EndOf(k + 2) <= Len(stream)
    /\ stream[EndOf(k + 2)] = 255 - (Sum(BodyAt(k + 2)) % 256)

\* what values() does with the payload of the packet whose length byte is at k
Outcome(k) ==
    LET d == get_payload_values(Texts(BodyAt(k)), stream[k])
    IN  IF d.exc # "" THEN d.exc
        ELSE IF skip_raw_wave /\ KeysAreRawWave(d.value) THEN "skip"
        ELSE "yield"

(* C7: ChecksumFailed never ends values(); the failed packet's length + 1  *)
(* bytes are consumed, the next scan starts at the byte after the checksum *)
(* byte, and a packet with a right checksum that starts there is handled   *)
(* as get_payload_values and the skip test decide on its payload alone: a  *)
(* packet that decodes and is not skipped is yielded.                      *)
C7_ChecksumRecovery ==
    /\ err # "ChecksumFailed"
    /\ \A k \in 1..Len(log) :
          log[k].kind = "ChecksumFailed" =>
              LET end == EndOf(log[k].lenAt) IN
              /\ log[k].upto = end
              /\ NextScanFrom(k, end)
              /\ FrameAt(end + 1) =>
                    /\ k = Len(log) => pos <= EndOf(end + 3)
                    /\ (k < Len(log) /\ log[k + 1].kind # "SerialException") =>
                          /\ log[k + 1].lenAt = end + 3
                          /\ log[k + 1].upto = EndOf(end + 3)
                          /\ log[k + 1].kind = Outcome(end + 3)

\* after a checksum failure the packet that follows at once was yielded
C7_Witness ==
    /\ Len(log) = 2
    /\ log[1].kind = "ChecksumFailed"
    /\ FrameAt(log[1].upto + 1)
    /\ log[2].kind = "yield"
    /\ pc = "yield"
    /\ out = <<[poor_signal |-> 100]>>

----------------------------------------------------------------------------
\* a tag text that is no key of self.codes
UnknownTag(text) == ~IsDecimal(text) \/ int10(text) \notin {2, 4, 5, 16, 80, 83}

\* the step of C8
C8_Step ==
    /\ (pc = "decode" /\ i < length /\ UnknownTag(payload[i + 1]) /\ pc' # pc) =>
          /\ pc' = "error"
          /\ err' \in {"KeyError", "ValueError"}
          /\ out' = out
          /\ Last(log').kind = err'
          /\ Last(log').lenAt = lenAt
    /\ pc = "error" => pc' = "error" /\ out' = out /\ pos' = pos

(* C8: when the decode loop stands at a tag whose text is not a key of     *)
(* self.codes, the pass of the loop raises (KeyError, or ValueError for a   *)
(* text with a hex letter), values() does not catch it, nothing is yielded *)
(* for the packet, and the generator has ended: from then on nothing is    *)
(* read and nothing is yielded.                                            *)
C8_UnknownFieldCode == [][C8_Step]_vars

\* an unknown tag ended the generator with a later packet still unread
C8_Witness ==
    /\ pc = "error"
    /\ err = "KeyError"
    /\ out = <<>>
    /\ FrameAt(pos + 1)

----------------------------------------------------------------------------
(* C9: the values yielded are, in order, the decoded payloads of the       *)
(* packets of the yield attempts, which lie one after the other in the     *)
(* stream; each was yielded with its own checksum byte the last byte read, *)
(* and nothing is read while the generator is suspended at the yield.      *)
C9_Ordering ==
    /\ Len(out) = Len(YieldEvents)
    /\ \A n \in 1..Len(YieldEvents) :
          LET e == YieldEvents[n] IN
          /\ e.upto = EndOf(e.lenAt)
          /\ n <= Len(out) =>
                out[n] = get_payload_values(Texts(BodyAt(e.lenAt)), stream[e.lenAt]).value
          /\ \A m \in 1..(n - 1) : YieldEvents[m].upto < e.syncFrom + 1
    /\ pc = "yield" => pos = Last(log).upto

\* two different values were yielded
C9_Witness ==
    /\ Len(out) = 2
    /\ out[1] # out[2]
    /\ pc = "yield"

----------------------------------------------------------------------------
\* the step of C10
C10_Step ==
    /\ (~open /\ pc \in ScanStates) =>
          /\ pos' = pos
          /\ out' = out
          /\ pc' \in ScanStates \cup {"len", "error"}
    /\ (~open /\ pc = "len") =>
          /\ pos' = pos
          /\ out' = out
          /\ pc' = "error"
    /\ (pc' = "len" /\ ready') =>
          \E k \in (syncFrom' + 1)..(pos' - 1) : SyncAt(k)

(* C10: once the port is closed during the scan for the sync marker (or    *)
(* before the length is read) no byte is read and nothing is yielded any   *)
(* more: the scan loop is left and the read of the length raises; and the  *)
(* scan returns True only after two adjacent 0xAA bytes among the bytes it *)
(* read.                                                                   *)
C10_SourceClosed == [][C10_Step]_vars

\* the port was closed in the middle of a scan and values() ended there
C10_Witness ==
    /\ ~open
    /\ pc = "error"
    /\ err = "SerialException"
    /\ ~ready
    /\ pos >= 1
    /\ pos < Len(stream)
    /\ log = <<>>

----------------------------------------------------------------------------
(* Steps of the decode loop, told by the bytes of the packet in the stream. *)

\* the payload byte at index j (from 0) of the packet being decoded
PayloadByte(j) == stream[lenAt + 1 + j]

\* the loop stands at index i, on a tag byte among `tags`, with at least
\* `after` payload bytes behind the tag
AtTag(tags, after) ==
    /\ pc = "decode"
    /\ i < length
    /\ PayloadByte(i) \in tags
    /\ i + after < length

\* a pass over a scalar field whose tag bytes and names are given by `names`
ScalarPass(names) ==
    AtTag(DOMAIN names, 1) =>
        /\ pc' = "decode"
        /\ i' = i + 2
        /\ result' = SetItem(result, names[PayloadByte(i)], PayloadByte(i + 1))

\* the scalar tags as the bytes 02 04 05 16 (hex)
ScalarTagsHex ==
    (2 :> "poor_signal") @@ (4 :> "attention") @@ (5 :> "meditation")
        @@ (22 :> "blink_strength")

\* the scalar tags as the byte values 2, 4, 5, 16
ScalarTagsDecimal ==
    (2 :> "poor_signal") @@ (4 :> "attention") @@ (5 :> "meditation")
        @@ (16 :> "blink_strength")

----------------------------------------------------------------------------
(* C11 as stated: at a tag byte of value 2, 4, 5 or 16 followed by a byte,  *)
(* the pass stores that byte's value under poor_signal, attention,          *)
(* meditation or blink_strength and goes on at i + 2.  (SpecDecode; fails   *)
(* for the byte of value 16, hex 10.)                                       *)
C11_ScalarDecimalTags == [][ScalarPass(ScalarTagsDecimal)]_vars

(* C11 amended: at a tag byte 02, 04, 05 or 16 in hex (values 2, 4, 5, 22)  *)
(* followed by a byte, the pass stores that byte's value (0..255) under     *)
(* poor_signal, attention, meditation or blink_strength and goes on at      *)
(* i + 2.                                                                   *)
C11_ScalarFields == [][ScalarPass(ScalarTagsHex)]_vars

\* the byte 16 (hex) was decoded as blink_strength 255
C11_Witness ==
    /\ pc = "decode"
    /\ i = 2
    /\ PayloadByte(0) = 22
    /\ result = [blink_strength |-> 255]

----------------------------------------------------------------------------
(* C12: the pass over a raw-wave field (tag 80 hex, length byte 2, two data *)
(* bytes) at index i goes on at index i + 4, the tag byte of the field that *)
(* follows.  (SpecDecode; the code violates it: it goes on at i + 5.)       *)
C12_RawWaveAdvance ==
    [][(AtTag({128}, 3) /\ PayloadByte(i + 1) = 2) => (pc' = "decode" /\ i' = i + 4)]_vars

----------------------------------------------------------------------------
(* SpecRawWave: get_payload_values on payloads that hold one raw-wave tag,  *)
(* with every length byte of RawLengths and every pair of data bytes of     *)
(* RawBytes, alone or with a scalar field before it or after it.            *)

RawBytes == {0, 1, 127, 128, 255}

RawLengths == {0, 1, 2, 3, 18, 26, 32, 255}

InitRawWave ==
    /\ \E before \in {<<>>, <<2, 100>>}, after \in {<<>>, <<4, 50>>},
          n \in RawLengths, high \in RawBytes, low \in RawBytes :
          LET bytes == before \o <<128, n, high, low>> \o after IN
          /\ stream = Frame(bytes)
          /\ payload = Texts(bytes)
          /\ checksum = Sum(bytes)
    /\ length = Len(payload)
    /\ version \in {2, 3}
    /\ skip_raw_wave \in BOOLEAN
    /\ pos = Len(stream)
    /\ open = TRUE
    /\ pc = "decode"
    /\ a = aa
    /\ b = aa
    /\ ready = TRUE
    /\ i = 0
    /\ result = EmptyDict
    /\ out = <<>>
    /\ err = ""
    /\ syncFrom = 0
    /\ lenAt = 3
    /\ log = <<>>

SpecRawWave == InitRawWave /\ [][NextDecode]_vars

\* the index of the raw-wave tag in a payload of SpecRawWave
RawIndex == IF PayloadByte(0) = 128 THEN 0 ELSE 2

\* high*256 + low read as a two's-complement 16-bit number
TwosComplement16(high, low) ==
    high * 256 + low - (IF high >= 128 THEN 65536 ELSE 0)

----------------------------------------------------------------------------
(* C13: for all data bytes (high, low) of a raw-wave field with length byte *)
(* 2, the pass stores high*256 + low read as a two's-complement 16-bit      *)
(* number, within -32768..32767; (7F,FF) gives 32767, (80,00) gives -32768  *)
(* and (FF,FF) gives -1.  (SpecRawWave)                                     *)
C13_RawWaveValue ==
    LET high == PayloadByte(RawIndex + 2)
        low == PayloadByte(RawIndex + 3)
    IN  /\ (PayloadByte(RawIndex + 1) = 2 /\ i > RawIndex) => "raw_wave" \in DOMAIN result
        /\ "raw_wave" \in DOMAIN result =>
              /\ result["raw_wave"] = TwosComplement16(high, low)
              /\ result["raw_wave"] \in -32768..32767
              /\ (high = 127 /\ low = 255) => result["raw_wave"] = 32767
              /\ (high = 128 /\ low = 0) => result["raw_wave"] = -32768
              /\ (high = 255 /\ low = 255) => result["raw_wave"] = -1

\* the bytes 80 00 were decoded as -32768
C13_Witness ==
    /\ "raw_wave" \in DOMAIN result
    /\ PayloadByte(RawIndex + 2) = 128
    /\ PayloadByte(RawIndex + 3) = 0
    /\ result["raw_wave"] = -32768

----------------------------------------------------------------------------
(* C14: when the byte after a raw-wave tag is not 2, the pass raises        *)
(* ValueError and stores no value; values() does not catch it, so the       *)
(* generator ends there with nothing yielded.  (SpecRawWave)                *)
C14_RawWaveLengthCheck ==
    PayloadByte(RawIndex + 1) # 2 =>
        /\ "raw_wave" \notin DOMAIN result
        /\ out = <<>>
        /\ pc \in {"decode", "error"}
        /\ pc = "decode" => i <= RawIndex /\ err = ""
        /\ pc = "error" =>
              /\ i = RawIndex
              /\ err = "ValueError"
              /\ Last(log).kind = "ValueError"

\* a length byte with a hex letter (1a) ended the generator
C14_Witness ==
    /\ pc = "error"
    /\ err = "ValueError"
    /\ i = 2
    /\ PayloadByte(RawIndex + 1) = 26
    /\ result = [poor_signal |-> 100]

----------------------------------------------------------------------------
(* C15: at a composite tag (83 hex) followed by a length byte of any value  *)
(* and 24 data bytes, the pass stores under asic_eeg the map of the eight   *)
(* wave names to b0*65536 + b1*256 + b2 of their 3-byte groups and goes on  *)
(* at i + 26, whatever the length byte.  (SpecDecode; the code violates it  *)
(* for a length byte whose hex text has a letter.)                          *)
C15_CompositeField ==
    [][AtTag({131}, 25) =>
          /\ pc' = "decode"
          /\ i' = i + 26
          /\ result' = SetItem(result, "asic_eeg",
                               DocValue(SubSeq(stream, lenAt + 1 + i, lenAt + 26 + i)))]_vars

----------------------------------------------------------------------------
(* _read_packet as a whole on payload bytes and a checksum byte: TRUE when  *)
(* it returns the payload, FALSE when it raises ChecksumFailed.             *)
read_packet_accepts(bytes, c) ==
    ~ChecksumWrong(ComputedChecksum(Sum([k \in 1..Len(bytes) |-> int16(encode(bytes[k]))])),
                   int16(encode(c)))

\* byte with bit k (0..7) flipped
FlipBit(byte, k) ==
    IF (byte \div (2 ^ k)) % 2 = 1 THEN byte - 2 ^ k ELSE byte + 2 ^ k

\* the packets one bit of one payload byte away from the packet in `stream`
\* (SpecPacket: payload at places 1..length, checksum byte after it)
OneBitAway ==
    {[SubSeq(stream, 1, length) EXCEPT ![n] = FlipBit(@, k)] :
        n \in 1..length, k \in 0..7}

----------------------------------------------------------------------------
(* C16: a packet that differs in one bit of one payload byte from a packet  *)
(* that _read_packet accepts, with the same checksum byte, makes            *)
(* _read_packet raise ChecksumFailed.  (SpecPacket)                         *)
C16_SingleBitError ==
    (pc # "pkt" /\ \E B \in OneBitAway : read_packet_accepts(B, stream[length + 1])) =>
        /\ pc = "top"
        /\ Len(log) = 1
        /\ log[1].kind = "ChecksumFailed"

\* a two-byte packet one bit away from an accepted one was refused
C16_Witness ==
    /\ pc = "top"
    /\ length = 2
    /\ \E B \in OneBitAway : read_packet_accepts(B, stream[length + 1])
    /\ log[1].kind = "ChecksumFailed"

----------------------------------------------------------------------------
(* C17: when _wait_for_ready_state returns True, the last two bytes it read *)
(* are the two bytes before the read position and both are 0xAA; it does    *)
(* not return True after a pair with another byte in it.  (SpecSync)        *)
C17_SyncSoundness ==
    (pc = "len" /\ ready) =>
        /\ pos >= syncFrom + 2
        /\ stream[pos - 1] = 170
        /\ stream[pos] = 170
        /\ a = <<10, 10>>
        /\ b = <<10, 10>>

\* the marker was found after one mismatching pass
C17_Witness ==
    /\ pc = "len"
    /\ ready
    /\ open
    /\ pos = 5
    /\ stream[2] = 170

----------------------------------------------------------------------------
(* SpecDecodeFair: SpecDecode with the loop of get_payload_values always    *)
(* taking its next pass (a sequential loop does not stop between passes).   *)
SpecDecodeFair == SpecDecode /\ WF_vars(NextDecode)

\* a pass of the decode loop raises or moves the index forward
C18_Step ==
    (pc = "decode" /\ i < length) =>
        \/ pc' = "error" /\ i' = i
        \/ pc' = "decode" /\ i' > i /\ i >= 0

(* C18: every pass of the loop of get_payload_values that does not raise    *)
(* leaves the index strictly greater than it found it, so no index is       *)
(* visited twice, and the loop ends: with index >= length or with an error. *)
(* (SpecDecodeFair)                                                        *)
C18_DecodeProgress ==
    /\ [][C18_Step]_vars
    /\ <>(pc # "decode")
    /\ [](pc \in {"yield", "top"} => i >= length)

\* the loop ended normally after two passes
C18_Witness ==
    /\ pc = "yield"
    /\ i = 4
    /\ length = 4
    /\ DOMAIN result = {"poor_signal", "attention"}

----------------------------------------------------------------------------
\* the payload slots a field occupies after its tag
Needs(func) ==
    CASE func = "read_default_value" -> 1
      [] func = "raw_wave" -> 3
      [] func = "asic_eeg" -> 25

\* the loop stands on a tag with fewer slots after it than its field needs
TruncatedField ==
    /\ pc = "decode"
    /\ i < length
    /\ length = Len(payload)
    /\ IsDecimal(At(payload, i))
    /\ int10(At(payload, i)) \in DOMAIN codes
    /\ length - i - 1 < Needs(codes[int10(At(payload, i))].func)

(* C19: when the loop of get_payload_values stands on a tag whose field is  *)
(* cut short by the end of the payload, the pass raises IndexError or       *)
(* ValueError; nothing is stored in the result, nothing is yielded, and     *)
(* the error leaves values().  (SpecDecode)                                  *)
C19_TruncatedField ==
    [][TruncatedField =>
          /\ pc' = "error"
          /\ err' \in {"IndexError", "ValueError"}
          /\ result' = result
          /\ out' = out
          /\ i' = i]_vars

\* 02 64 02: a scalar tag as the last byte, after a whole field
C19_Witness ==
    /\ pc = "error"
    /\ err = "IndexError"
    /\ length = 3
    /\ i = 2
    /\ At(payload, 2) = encode(2)
    /\ DOMAIN result = {"poor_signal"}
    /\ out = <<>>

----------------------------------------------------------------------------
(* SpecZero: values() on a stream that opens with AA AA 00 c, a packet of   *)
(* declared length 0 and one byte c after it, followed by more of the       *)
(* stream.                                                                  *)

ZeroBytes == {0, 1, 127, 128, SYNC, 254, 255}

ZeroTails ==
    { <<>>, Frame(PoorSignal), Frame(RawOnly), <<1, 2, 3>> \o Frame(Attention),
      <<SYNC, 0, 255>>, <<SYNC, SYNC, 0, 255>> }

InitZero ==
    /\ \E c \in ZeroBytes, tail \in ZeroTails :
          stream = <<SYNC, SYNC, 0, c>> \o tail
    /\ version \in {2, 3}
    /\ skip_raw_wave \in BOOLEAN
    /\ pos = 0
    /\ open = TRUE
    /\ pc = "top"
    /\ a = NoText
    /\ b = NoText
    /\ ready = FALSE
    /\ length = 0
    /\ payload = <<>>
    /\ checksum = 0
    /\ i = 0
    /\ result = EmptyDict
    /\ out = <<>>
    /\ err = ""
    /\ syncFrom = 0
    /\ lenAt = 0
    /\ log = <<>>

SpecZero == InitZero /\ [][Next]_vars

(* C20: on a stream that opens with AA AA 00 c, the first packet attempt    *)
(* that the port lets finish ends after exactly the one byte c: if c is FF  *)
(* it is a yield and the first value handed out is the empty dict, whatever *)
(* skip_raw_wave is; otherwise it is a checksum failure, nothing is yielded *)
(* for it, and no payload byte is read for it.  (SpecZero)                  *)
C20_ZeroLengthPacket ==
    /\ log = <<>> => (pos <= 4 /\ out = <<>> /\ payload = <<>>)
    /\ (log # <<>> /\ log[1].kind # "SerialException") =>
          /\ log[1].syncFrom = 0
          /\ log[1].lenAt = 3
          /\ log[1].upto = 4
          /\ IF stream[4] = 255
             THEN /\ log[1].kind = "yield"
                  /\ out # <<>>
                  /\ DOMAIN out[1] = {}
             ELSE /\ log[1].kind = "ChecksumFailed"
                  /\ \A k \in DOMAIN log :
                        log[k].kind = "yield" => log[k].lenAt > 4
                  /\ Len(out) <= Len(log) - 1

\* AA AA 00 FF read by a Python 2 reader that skips raw-wave-only packets:
\* the empty dict has just been yielded
C20_Witness ==
    /\ pc = "yield"
    /\ pos = 4
    /\ stream[4] = 255
    /\ skip_raw_wave
    /\ version = 2
    /\ Len(log) = 1
    /\ log[1].kind = "yield"
    /\ Len(out) = 1
    /\ DOMAIN out[1] = {}

====
